---- MODULE Spec2Model ----
(***************************************************************************)
(* Model of the licitaciones scraper: the retry executor (utils.ts         *)
(* retryOperation), the paginated harvest (scraper.ts scrape with utils.ts *)
(* scrapeTable), the tree expansion driver (selector.spec.ts               *)
(* expandAllNodes) and the two tree reconstructions (scrapeCPVTree in      *)
(* unnamed/part_000, depth based, and in selector.spec.ts, path based).    *)
(***************************************************************************)
EXTENDS Integers, Sequences, FiniteSets, TLC

VARIABLES
  \* retryOperation (utils.ts)
  operation,      \* which operation was passed: "op" (any) or "goto" (scrape's navigation)
  maxAttempts,    \* parameter maxAttempts
  attempt,        \* loop variable attempt
  lastError,      \* local lastError
  rpc,            \* position in retryOperation
  calls,          \* history: number of invocations of operation
  opLog,          \* history: what each invocation of operation threw or resolved to, in order
  waits,          \* history: the delays performed (ms), in order
  retResult,      \* value retryOperation returned
  retThrown       \* value retryOperation threw

VARIABLES
  \* the listing site (environment of scrape)
  pages,          \* the result pages; a page is its rows, TRUE = the row extracts, FALSE = extraction throws
  loops,          \* TRUE: the "next" control never becomes disabled
  curPage,        \* the page the view currently shows
  \* scrape (scraper.ts) and scrapeTable (utils.ts)
  spc,            \* position in scrape
  step,           \* index of the readiness step being awaited
  allResults,     \* local allResults
  hasNextPage,    \* local hasNextPage
  pageNum,        \* local pageNum
  rowIdx,         \* scrapeTable: index of the row being processed
  results,        \* scrapeTable: local results
  visited,        \* history: the pages handed to scrapeTable, in order
  file,           \* contents of licitaciones.json (meaningful once writes > 0)
  writes,         \* history: number of writes of licitaciones.json
  scrapeReturn,   \* value scrape returned
  scrapeError     \* value scrape threw

VARIABLES
  \* the tree widget (environment of expandAllNodes)
  ctlParent,      \* expand control -> the control that reveals it (0: rendered from the start)
  ctlKind,        \* expand control -> "ok" | "hidden" (isVisible() is false) | "stuck" (click() throws)
  regrow,         \* TRUE: every activation puts a fresh expand control in place of the activated one
  expanded,       \* the controls activated so far that no longer exist
  \* expandAllNodes (selector.spec.ts)
  epc,            \* position in expandAllNodes
  keepExpanding,  \* local keepExpanding
  iterations,     \* local iterations
  expandButtons,  \* local expandButtons: the handles the last query returned
  btnIdx,         \* index of the for loop over expandButtons
  isVisible,      \* local isVisible
  clicks          \* history: number of activations performed

VARIABLES
  \* the rendered tree (environment of the reconstructions)
  nodes,          \* the flat node stream page.$$('table[class="tree_nodeStyle"]') returns
  \* scrapeCPVTree, depth based (unnamed/part_000)
  dpc,            \* position in scrapeCPVTree
  dIdx,           \* index of the for loop over nodes
  cpvData,        \* local cpvData: the roots, as indices into nodes
  dChildren,      \* node index -> its children array
  dDropped,       \* history: the nodes whose processing threw after they were read
  \* scrapeCPVTree, path based (selector.spec.ts)
  ppc,            \* position in scrapeCPVTree
  pIdx,           \* index of the for loop over nodes
  nodeMap,        \* local nodeMap: path key -> node index
  rootNodes,      \* local rootNodes, as indices into nodes
  pChildren       \* node index -> its children array

VARIABLES
  \* extractImporte (utils.ts) on one amount cell
  tdImporte,      \* the .tdImporte cell: whether the row has it, and its textContent
  ipc,            \* position in extractImporte
  importeText,    \* local importeText
  numericValue,   \* local numericValue
  importe         \* value extractImporte returned

VARIABLES
  \* extractRowData (utils.ts) on one table row
  row,                 \* which cells and sub-elements the row has
  xpc,                 \* position in extractRowData
  expediente,          \* the six locals of extractRowData
  tipoContrato,
  estado,
  fechaPresentacion,
  organoContratacion,
  rowData              \* the record extractRowData returned

retryVars == <<operation, maxAttempts, attempt, lastError, rpc, calls, opLog,
               waits, retResult, retThrown>>

siteVars == <<pages, loops, curPage>>

scrapeVars == <<spc, step, allResults, hasNextPage, pageNum, rowIdx, results,
                visited, file, writes, scrapeReturn, scrapeError>>

widgetVars == <<ctlParent, ctlKind, regrow, expanded>>

expandVars == <<epc, keepExpanding, iterations, expandButtons, btnIdx, isVisible, clicks>>

depthVars == <<dpc, dIdx, cpvData, dChildren, dDropped>>

pathVars == <<ppc, pIdx, nodeMap, rootNodes, pChildren>>

importeVars == <<tdImporte, ipc, importeText, numericValue, importe>>

rowVars == <<row, xpc, expediente, tipoContrato, estado, fechaPresentacion, organoContratacion,
             rowData>>

extractVars == <<importeVars, rowVars>>

vars == <<retryVars, siteVars, scrapeVars, widgetVars, expandVars, nodes, depthVars, pathVars,
          extractVars>>

\* what an action of one component leaves alone
notRetry == <<siteVars, scrapeVars, widgetVars, expandVars, nodes, depthVars, pathVars, extractVars>>
notScrape == <<widgetVars, expandVars, nodes, depthVars, pathVars, extractVars>>
notExpand == <<retryVars, siteVars, scrapeVars, nodes, depthVars, pathVars, extractVars>>
notDepth == <<retryVars, siteVars, scrapeVars, widgetVars, expandVars, pathVars, extractVars>>
notPath == <<retryVars, siteVars, scrapeVars, widgetVars, expandVars, depthVars, extractVars>>
notExtract == <<retryVars, siteVars, scrapeVars, widgetVars, expandVars, nodes, depthVars, pathVars>>

\* ---------------------------------------------------------------- values

Undefined == "undefined"

\* what the generic operation may throw / return
Errors == {"E1", "E2"}
Values == {"V1", "V2"}

\* page.goto fails with a navigation timeout and resolves to a response
GotoErrors == {"GotoTimeout"}
GotoValues == {"Response"}

OpErrorsOf(op) == IF op = "goto" THEN GotoErrors ELSE Errors
OpValuesOf(op) == IF op = "goto" THEN GotoValues ELSE Values

\* largest maxAttempts the retry specification tries
MaxAttemptsBound == 4

\* setTimeout(resolve, attempt * 1000)
BaseDelay == 1000

SeqsUpTo(S, n) == UNION {[1..k -> S] : k \in 0..n}

Digit == [d \in 0..9 |-> CASE d = 0 -> "0" [] d = 1 -> "1" [] d = 2 -> "2" [] d = 3 -> "3"
                            [] d = 4 -> "4" [] d = 5 -> "5" [] d = 6 -> "6" [] d = 7 -> "7"
                            [] d = 8 -> "8" [] d = 9 -> "9"]

\* ---------------------------------------------------------------- retryOperation

\* let lastError; for (let attempt = 1; ...
RetryEntry(op, n) ==
  /\ operation' = op
  /\ maxAttempts' = n
  /\ attempt' = 1
  /\ lastError' = Undefined
  /\ rpc' = "loop"
  /\ calls' = 0
  /\ opLog' = <<>>
  /\ waits' = <<>>
  /\ retResult' = Undefined
  /\ retThrown' = Undefined

\* RetryLoop with the bound off by one: attempt < maxAttempts
RetryLoopOffByOne ==
  /\ rpc = "loop"
  /\ rpc' = IF attempt < maxAttempts THEN "call" ELSE "throw"
  /\ UNCHANGED <<operation, maxAttempts, attempt, lastError, calls, opLog,
                 waits, retResult, retThrown>>
  /\ UNCHANGED notRetry

\* the for condition: attempt <= maxAttempts
RetryLoop ==
  /\ rpc = "loop"
  /\ rpc' = IF attempt <= maxAttempts THEN "call" ELSE "throw"
  /\ UNCHANGED <<operation, maxAttempts, attempt, lastError, calls, opLog,
                 waits, retResult, retThrown>>
  /\ UNCHANGED notRetry

\* RetryCallOk without the return: the value is kept and the loop goes on
RetryCallOkNoReturn ==
  /\ rpc = "call"
  /\ \E v \in OpValuesOf(operation) :
       /\ retResult' = v
       /\ opLog' = Append(opLog, v)
       /\ calls' = calls + 1
       /\ rpc' = IF attempt = maxAttempts THEN "returned" ELSE "wait"
  /\ UNCHANGED <<operation, maxAttempts, attempt, lastError, waits, retThrown>>
  /\ UNCHANGED notRetry

\* return await operation();   -- the operation resolves
RetryCallOk ==
  /\ rpc = "call"
  /\ \E v \in OpValuesOf(operation) :
       /\ retResult' = v
       /\ opLog' = Append(opLog, v)
       /\ calls' = calls + 1
       /\ rpc' = "returned"
  /\ UNCHANGED <<operation, maxAttempts, attempt, lastError, waits, retThrown>>
  /\ UNCHANGED notRetry

\* catch (error) { lastError = error; if (attempt === maxAttempts) break; ...
RetryCallFail ==
  /\ rpc = "call"
  /\ \E e \in OpErrorsOf(operation) :
       /\ lastError' = e
       /\ opLog' = Append(opLog, e)
       /\ calls' = calls + 1
       /\ rpc' = IF attempt = maxAttempts THEN "throw" ELSE "wait"
  /\ UNCHANGED <<operation, maxAttempts, attempt, waits, retResult, retThrown>>
  /\ UNCHANGED notRetry

\* RetryWait with a doubling delay: 2 ** (attempt - 1) * 1000
RetryWaitExponential ==
  /\ rpc = "wait"
  /\ waits' = Append(waits, (2 ^ (attempt - 1)) * BaseDelay)
  /\ attempt' = attempt + 1
  /\ rpc' = "loop"
  /\ UNCHANGED <<operation, maxAttempts, lastError, calls, opLog, retResult, retThrown>>
  /\ UNCHANGED notRetry

\* await new Promise(resolve => setTimeout(resolve, attempt * 1000)); attempt++
RetryWait ==
  /\ rpc = "wait"
  /\ waits' = Append(waits, attempt * BaseDelay)
  /\ attempt' = attempt + 1
  /\ rpc' = "loop"
  /\ UNCHANGED <<operation, maxAttempts, lastError, calls, opLog, retResult, retThrown>>
  /\ UNCHANGED notRetry

\* RetryThrow with a fallback error: throw lastError || new Error(...)
RetryThrowFallback ==
  /\ rpc = "throw"
  /\ retThrown' = IF lastError = Undefined THEN "E1" ELSE lastError
  /\ rpc' = "failed"
  /\ UNCHANGED <<operation, maxAttempts, attempt, lastError, calls, opLog,
                 waits, retResult>>
  /\ UNCHANGED notRetry

\* throw lastError;
RetryThrow ==
  /\ rpc = "throw"
  /\ retThrown' = lastError
  /\ rpc' = "failed"
  /\ UNCHANGED <<operation, maxAttempts, attempt, lastError, calls, opLog,
                 waits, retResult>>
  /\ UNCHANGED notRetry

RetryStep == RetryLoop \/ RetryCallOk \/ RetryCallFail \/ RetryWait \/ RetryThrow

RetryIdle ==
  /\ operation = "none"
  /\ maxAttempts = 0
  /\ attempt = 0
  /\ lastError = Undefined
  /\ rpc = "idle"
  /\ calls = 0
  /\ opLog = <<>>
  /\ waits = <<>>
  /\ retResult = Undefined
  /\ retThrown = Undefined

\* a caller (the test of scraper.spec.js) invokes retryOperation(operation, maxAttempts)
CallRetry ==
  /\ rpc = "idle"
  /\ \E n \in (0 - 1)..MaxAttemptsBound : RetryEntry("op", n)
  /\ UNCHANGED notRetry

\* ---------------------------------------------------------------- extractText, extractImporte

\* longest textContent of an amount cell
MaxTextLen == 4

\* the characters of a cell text: digits, the comma, and characters that are
\* neither (a dot, a blank)
CellChars == {"0", "1", ",", ".", " "}

TextSet == SeqsUpTo(CellChars, MaxTextLen)

IsDigit(c) == \E d \in 0..9 : Digit[d] = c

DigitValue(c) == CHOOSE d \in 0..9 : Digit[d] = c

\* a JavaScript number with finitely many decimals, mant / 10^scale, or NaN
Num(m, sc) == [kind |-> "number", mant |-> m, scale |-> sc]
NaN == [kind |-> "NaN", mant |-> 0, scale |-> 0]

\* the same number without trailing zero decimals
RECURSIVE Normal(_, _)
Normal(m, sc) == IF sc > 0 /\ m % 10 = 0 THEN Normal(m \div 10, sc - 1) ELSE Num(m, sc)

\* String.prototype.trim()
RECURSIVE Trim(_)
Trim(str) ==
  IF str = <<>> THEN <<>>
  ELSE IF Head(str) = " " THEN Trim(Tail(str))
  ELSE IF str[Len(str)] = " " THEN Trim(SubSeq(str, 1, Len(str) - 1))
  ELSE str

\* element ? (await element.textContent()).trim() : ''
extractText(cell) == IF cell.present THEN Trim(cell.text) ELSE <<>>

KeepsDigitOrComma(c) == IsDigit(c) \/ c = ","

\* importeText.replace(/[^\d,]/g, '')
StripNonNumeric(str) == SelectSeq(str, KeepsDigitOrComma)

\* .replace(',', '.'): the first comma only
RECURSIVE ReplaceFirstComma(_)
ReplaceFirstComma(str) ==
  IF str = <<>> THEN <<>>
  ELSE IF Head(str) = "," THEN <<".">> \o Tail(str)
  ELSE <<Head(str)>> \o ReplaceFirstComma(Tail(str))

\* the leading digits of str
RECURSIVE DigitPrefix(_)
DigitPrefix(str) ==
  IF str = <<>> \/ ~IsDigit(Head(str)) THEN <<>>
  ELSE <<Head(str)>> \o DigitPrefix(Tail(str))

\* the value of a sequence of digits
RECURSIVE DigitsValue(_)
DigitsValue(ds) ==
  IF ds = <<>> THEN 0
  ELSE 10 * DigitsValue(SubSeq(ds, 1, Len(ds) - 1)) + DigitValue(ds[Len(ds)])

\* parseFloat: the longest leading decimal literal (digits, optionally a dot
\* and digits; or a dot and digits), NaN when there is none
parseFloat(str) ==
  LET int == DigitPrefix(Trim(str))
      rest == SubSeq(Trim(str), Len(int) + 1, Len(Trim(str)))
      frac == IF rest # <<>> /\ Head(rest) = "." THEN DigitPrefix(Tail(rest)) ELSE <<>>
  IN IF int = <<>> /\ frac = <<>> THEN NaN
     ELSE Normal(DigitsValue(int \o frac), Len(frac))

\* return numericValue ? parseFloat(numericValue) : 0;
ParseOrZero(str) == IF str # <<>> THEN parseFloat(str) ELSE Num(0, 0)

\* extractImporte as one function of the cell
extractImporte(cell) == ParseOrZero(ReplaceFirstComma(StripNonNumeric(extractText(cell))))

CellSet == {[present |-> FALSE, text |-> <<>>]} \cup {[present |-> TRUE, text |-> t] : t \in TextSet}

ImporteIdle ==
  /\ ipc = "idle"
  /\ importeText = <<>>
  /\ numericValue = <<>>
  /\ importe = Num(0, 0)

\* const importeText = await extractText(row, '.tdImporte');
ImporteText ==
  /\ ipc = "idle"
  /\ importeText' = extractText(tdImporte)
  /\ ipc' = "strip"
  /\ UNCHANGED <<tdImporte, numericValue, importe>>
  /\ UNCHANGED rowVars
  /\ UNCHANGED notExtract

\* const numericValue = importeText.replace(/[^\d,]/g, '').replace(',', '.');
ImporteStrip ==
  /\ ipc = "strip"
  /\ numericValue' = ReplaceFirstComma(StripNonNumeric(importeText))
  /\ ipc' = "parse"
  /\ UNCHANGED <<tdImporte, importeText, importe>>
  /\ UNCHANGED rowVars
  /\ UNCHANGED notExtract

\* return numericValue ? parseFloat(numericValue) : 0;
ImporteReturn ==
  /\ ipc = "parse"
  /\ importe' = ParseOrZero(numericValue)
  /\ ipc' = "returned"
  /\ UNCHANGED <<tdImporte, importeText, numericValue>>
  /\ UNCHANGED rowVars
  /\ UNCHANGED notExtract

\* ---------------------------------------------------------------- extractRowData

\* texts of the elements a row has
TextNumero == <<"E", "1">>
TextDescripcion == <<"D">>
TextDeeplink == <<"h", "1">>
TextTipo == <<"T">>
TextSubtipo == <<"S">>
TextEstado == <<" ", "P", " ">>
TextOrgano == <<" ", "O">>
TextOrganoLink == <<"h", "2">>
TextFecha == <<"3", "1", "/", "1", "2", "/", "2", "0", "2", "4">>
TextNoFecha == <<"h", "o", "y">>

Absent == [present |-> FALSE, text |-> <<>>]
Cell(t) == [present |-> TRUE, text |-> t]

\* amount cells of a row: none, a decimal amount, a lone comma
AmountCells == {Absent, Cell(<<"1", ",", "5", " ">>), Cell(<<",">>)}

FechaCells == {Absent, Cell(<<>>), Cell(TextFecha), Cell(TextNoFecha)}

\* a sub-element exists only inside its cell
RowSet ==
  {r \in [tdExpediente : BOOLEAN, textoEnlace : BOOLEAN, descripcion : BOOLEAN,
          imgELicitacion : BOOLEAN, deeplink : BOOLEAN,
          tdTipoContrato : BOOLEAN, tipo : BOOLEAN, subtipo : BOOLEAN,
          tdEstado : BOOLEAN, tdFechaLimite : FechaCells,
          tdOrganoContratacion : BOOLEAN, organoLink : BOOLEAN] :
     /\ (r.textoEnlace \/ r.descripcion \/ r.imgELicitacion \/ r.deeplink) => r.tdExpediente
     /\ (r.tipo \/ r.subtipo) => r.tdTipoContrato
     /\ r.organoLink => r.tdOrganoContratacion}

\* element?.textContent?.trim() || ''
TextOr(has, t) == IF has THEN Trim(t) ELSE <<>>

\* parse(fechaText, 'dd/MM/yyyy', new Date()): a date, or an Invalid Date
parseFecha(t) ==
  IF /\ Len(t) = 10
     /\ t[3] = "/" /\ t[6] = "/"
     /\ \A i \in {1, 2, 4, 5, 7, 8, 9, 10} : IsDigit(t[i])
     /\ DigitsValue(SubSeq(t, 1, 2)) \in 1..31
     /\ DigitsValue(SubSeq(t, 4, 5)) \in 1..12
  THEN [valid |-> TRUE, dd |-> SubSeq(t, 1, 2), mm |-> SubSeq(t, 4, 5), yyyy |-> SubSeq(t, 7, 10)]
  ELSE [valid |-> FALSE, dd |-> <<>>, mm |-> <<>>, yyyy |-> <<>>]

\* format(date, 'yyyy-MM-dd'), which throws on an Invalid Date; the catch
\* returns fechaText
extractFecha(cell) ==
  LET fechaText == extractText(cell)
      date == parseFecha(fechaText)
  IN IF date.valid THEN date.yyyy \o <<"-">> \o date.mm \o <<"-">> \o date.dd ELSE fechaText

RowIdle ==
  /\ xpc = "idle"
  /\ expediente = Undefined
  /\ tipoContrato = Undefined
  /\ estado = <<>>
  /\ fechaPresentacion = <<>>
  /\ organoContratacion = Undefined
  /\ rowData = Undefined

\* row.$eval('.tdExpediente', ...) with the cell there
RowExpediente ==
  /\ xpc = "idle"
  /\ row.tdExpediente
  /\ expediente' = [numero |-> TextOr(row.textoEnlace, TextNumero),
                    descripcion |-> TextOr(row.descripcion, TextDescripcion),
                    licitacionElectronica |-> row.imgELicitacion,
                    enlace |-> IF row.deeplink THEN TextDeeplink ELSE <<>>]
  /\ xpc' = "tipoContrato"
  /\ UNCHANGED <<row, tipoContrato, estado, fechaPresentacion, organoContratacion, rowData>>
  /\ UNCHANGED <<importeVars, notExtract>>

\* row.$eval rejects when the selector matches nothing; extractRowData does
\* not catch
RowThrows(at) ==
  /\ xpc = at
  /\ xpc' = "threw"
  /\ UNCHANGED <<row, expediente, tipoContrato, estado, fechaPresentacion, organoContratacion,
                 rowData>>
  /\ UNCHANGED <<importeVars, notExtract>>

RowExpedienteThrows == ~row.tdExpediente /\ RowThrows("idle")

\* row.$eval('.tdTipoContrato', ...)
RowTipoContrato ==
  /\ xpc = "tipoContrato"
  /\ row.tdTipoContrato
  /\ tipoContrato' = [tipo |-> TextOr(row.tipo, TextTipo), subtipo |-> TextOr(row.subtipo, TextSubtipo)]
  /\ xpc' = "estado"
  /\ UNCHANGED <<row, expediente, estado, fechaPresentacion, organoContratacion, rowData>>
  /\ UNCHANGED <<importeVars, notExtract>>

RowTipoContratoThrows == ~row.tdTipoContrato /\ RowThrows("tipoContrato")

\* extractText(row, '.tdEstado')
RowEstado ==
  /\ xpc = "estado"
  /\ estado' = extractText(IF row.tdEstado THEN Cell(TextEstado) ELSE Absent)
  /\ xpc' = "importe"
  /\ UNCHANGED <<row, expediente, tipoContrato, fechaPresentacion, organoContratacion, rowData>>
  /\ UNCHANGED <<importeVars, notExtract>>

\* extractImporte(row)
RowImporte ==
  /\ xpc = "importe"
  /\ importe' = extractImporte(tdImporte)
  /\ xpc' = "fecha"
  /\ UNCHANGED <<row, expediente, tipoContrato, estado, fechaPresentacion, organoContratacion,
                 rowData>>
  /\ UNCHANGED <<tdImporte, ipc, importeText, numericValue, notExtract>>

\* extractFecha(row)
RowFecha ==
  /\ xpc = "fecha"
  /\ fechaPresentacion' = extractFecha(row.tdFechaLimite)
  /\ xpc' = "organo"
  /\ UNCHANGED <<row, expediente, tipoContrato, estado, organoContratacion, rowData>>
  /\ UNCHANGED <<importeVars, notExtract>>

\* row.$eval('.tdOrganoContratacion', ...)
RowOrgano ==
  /\ xpc = "organo"
  /\ row.tdOrganoContratacion
  /\ organoContratacion' = [nombre |-> Trim(TextOrgano),
                            enlace |-> IF row.organoLink THEN TextOrganoLink ELSE <<>>]
  /\ xpc' = "return"
  /\ UNCHANGED <<row, expediente, tipoContrato, estado, fechaPresentacion, rowData>>
  /\ UNCHANGED <<importeVars, notExtract>>

RowOrganoThrows == ~row.tdOrganoContratacion /\ RowThrows("organo")

\* return { expediente, tipoContrato, estado, importe, fechaPresentacion, organoContratacion }
RowReturn ==
  /\ xpc = "return"
  /\ rowData' = [expediente |-> expediente, tipoContrato |-> tipoContrato, estado |-> estado,
                 importe |-> importe, fechaPresentacion |-> fechaPresentacion,
                 organoContratacion |-> organoContratacion]
  /\ xpc' = "returned"
  /\ UNCHANGED <<row, expediente, tipoContrato, estado, fechaPresentacion, organoContratacion>>
  /\ UNCHANGED <<importeVars, notExtract>>

\* ---------------------------------------------------------------- the listing site

\* most pages of the listing, most rows of a page
MaxPages == 2
MaxRows == 2

\* cap on pageNum when the "next" control never disables
MaxPageNum == MaxPages + 2

PageSet == SeqsUpTo(BOOLEAN, MaxRows)
SiteSet == SeqsUpTo(PageSet, MaxPages) \ {<<>>}

\* page.$('a.siguientePagina:not(.disabled)') on page p
HasNext(p) == loops \/ p < Len(pages)

\* the page shown after activating the "next" control on page p
NextPage(p) == IF p < Len(pages) THEN p + 1 ELSE p

\* the record extractRowData yields for row r of page p: which row it is, and
\* its importe (every row of the site carries the amount cell tdImporte)
RecordOf(p, r) == [page |-> p, row |-> r, importe |-> extractImporte(tdImporte)]

\* JSON has no NaN: JSON.stringify writes it as null
Null == [kind |-> "null", mant |-> 0, scale |-> 0]

JsonNumber(n) == IF n.kind = "NaN" THEN Null ELSE n

\* the array JSON.stringify(allResults, null, 2) puts in the file
JsonStringify(recs) == [i \in 1..Len(recs) |-> [recs[i] EXCEPT !.importe = JsonNumber(@)]]

\* ---------------------------------------------------------------- scrape

\* retryOperation(..., 3)
NavAttempts == 3

\* the awaited steps between navigation and the loop
ReadySteps == <<"waitSearchLink", "clickSearchLink", "waitEstado", "selectEstado",
                "clickBuscar", "waitTable">>

ScrapeIdle ==
  /\ spc = "idle"
  /\ step = 0
  /\ allResults = <<>>
  /\ hasNextPage = FALSE
  /\ pageNum = 0
  /\ rowIdx = 0
  /\ results = <<>>
  /\ visited = <<>>
  /\ file = <<>>
  /\ writes = 0
  /\ scrapeReturn = <<>>
  /\ scrapeError = Undefined

\* catch (error) { console.error(...); throw error; }
ScrapeFail(e) ==
  /\ spc' = "failed"
  /\ scrapeError' = e

\* ScrapeBegin passing 2 as maxAttempts
ScrapeBeginTwoAttempts ==
  /\ spc = "idle"
  /\ rpc = "idle"
  /\ spc' = "nav"
  /\ RetryEntry("goto", 2)
  /\ UNCHANGED <<siteVars, step, allResults, hasNextPage, pageNum, rowIdx, results,
                 visited, file, writes, scrapeReturn, scrapeError>>
  /\ UNCHANGED notScrape

\* await page.route(...); await utils.retryOperation(async () => { await page.goto(...) }, 3)
ScrapeBegin ==
  /\ spc = "idle"
  /\ rpc = "idle"
  /\ spc' = "nav"
  /\ RetryEntry("goto", NavAttempts)
  /\ UNCHANGED <<siteVars, step, allResults, hasNextPage, pageNum, rowIdx, results,
                 visited, file, writes, scrapeReturn, scrapeError>>
  /\ UNCHANGED notScrape

\* retryOperation resolved: go on to the search form
ScrapeNavDone ==
  /\ spc = "nav"
  /\ rpc = "returned"
  /\ spc' = "ready"
  /\ step' = 1
  /\ UNCHANGED <<retryVars, siteVars, allResults, hasNextPage, pageNum, rowIdx, results,
                 visited, file, writes, scrapeReturn, scrapeError>>
  /\ UNCHANGED notScrape

\* retryOperation threw: the outer catch rethrows
ScrapeNavFailed ==
  /\ spc = "nav"
  /\ rpc = "failed"
  /\ ScrapeFail(retThrown)
  /\ UNCHANGED <<retryVars, siteVars, step, allResults, hasNextPage, pageNum, rowIdx,
                 results, visited, file, writes, scrapeReturn>>
  /\ UNCHANGED notScrape

\* one awaited readiness step resolves; after the last: allResults = [], hasNextPage = true, pageNum = 1
ScrapeReadyOk ==
  /\ spc = "ready"
  /\ IF step < Len(ReadySteps)
       THEN /\ step' = step + 1
            /\ UNCHANGED <<spc, allResults, hasNextPage, pageNum>>
       ELSE /\ spc' = "while"
            /\ allResults' = <<>>
            /\ hasNextPage' = TRUE
            /\ pageNum' = 1
            /\ UNCHANGED step
  /\ UNCHANGED <<retryVars, siteVars, rowIdx, results, visited, file, writes,
                 scrapeReturn, scrapeError>>
  /\ UNCHANGED notScrape

\* one awaited readiness step throws (timeout): not retried, the outer catch rethrows
ScrapeReadyFail ==
  /\ spc = "ready"
  /\ ScrapeFail(ReadySteps[step])
  /\ UNCHANGED <<retryVars, siteVars, step, allResults, hasNextPage, pageNum, rowIdx,
                 results, visited, file, writes, scrapeReturn>>
  /\ UNCHANGED notScrape

\* while (hasNextPage) { ... const pageData = await utils.scrapeTable(page);
ScrapeWhile ==
  /\ spc = "while"
  /\ IF hasNextPage
       THEN /\ spc' = "table"
            /\ rowIdx' = 1
            /\ results' = <<>>
            /\ visited' = Append(visited, curPage)
       ELSE /\ spc' = "write"
            /\ UNCHANGED <<rowIdx, results, visited>>
  /\ UNCHANGED <<retryVars, siteVars, step, allResults, hasNextPage, pageNum, file,
                 writes, scrapeReturn, scrapeError>>
  /\ UNCHANGED notScrape

\* scrapeTable: const result = await extractRowData(row); results.push(result);
TableRowOk ==
  /\ spc = "table"
  /\ rowIdx <= Len(pages[curPage])
  /\ pages[curPage][rowIdx]
  /\ results' = Append(results, RecordOf(curPage, rowIdx))
  /\ rowIdx' = rowIdx + 1
  /\ UNCHANGED <<retryVars, siteVars, spc, step, allResults, hasNextPage, pageNum,
                 visited, file, writes, scrapeReturn, scrapeError>>
  /\ UNCHANGED notScrape

\* TableRowFail leaving the loop at the first failing row: break
TableRowFailBreak ==
  /\ spc = "table"
  /\ rowIdx <= Len(pages[curPage])
  /\ ~pages[curPage][rowIdx]
  /\ rowIdx' = Len(pages[curPage]) + 1
  /\ UNCHANGED <<retryVars, siteVars, spc, step, allResults, hasNextPage, pageNum,
                 results, visited, file, writes, scrapeReturn, scrapeError>>
  /\ UNCHANGED notScrape

\* scrapeTable: catch (error) { console.error('Error processing row:', error); }
TableRowFail ==
  /\ spc = "table"
  /\ rowIdx <= Len(pages[curPage])
  /\ ~pages[curPage][rowIdx]
  /\ rowIdx' = rowIdx + 1
  /\ UNCHANGED <<retryVars, siteVars, spc, step, allResults, hasNextPage, pageNum,
                 results, visited, file, writes, scrapeReturn, scrapeError>>
  /\ UNCHANGED notScrape

\* TableReturn with the page put in front: allResults.unshift(...pageData)
TableReturnUnshift ==
  /\ spc = "table"
  /\ rowIdx > Len(pages[curPage])
  /\ allResults' = results \o allResults
  /\ spc' = "probe"
  /\ UNCHANGED <<retryVars, siteVars, step, hasNextPage, pageNum, rowIdx, results,
                 visited, file, writes, scrapeReturn, scrapeError>>
  /\ UNCHANGED notScrape

\* scrapeTable: return results;   scrape: allResults.push(...pageData);
TableReturn ==
  /\ spc = "table"
  /\ rowIdx > Len(pages[curPage])
  /\ allResults' = allResults \o results
  /\ spc' = "probe"
  /\ UNCHANGED <<retryVars, siteVars, step, hasNextPage, pageNum, rowIdx, results,
                 visited, file, writes, scrapeReturn, scrapeError>>
  /\ UNCHANGED notScrape

\* ScrapeProbe with a page cap: the loop also ends once two pages were read
ScrapeProbeCapped ==
  /\ spc = "probe"
  /\ IF HasNext(curPage) /\ pageNum < 2
       THEN /\ spc' = "click"
            /\ UNCHANGED hasNextPage
       ELSE /\ spc' = "while"
            /\ hasNextPage' = FALSE
  /\ UNCHANGED <<retryVars, siteVars, step, allResults, pageNum, rowIdx, results,
                 visited, file, writes, scrapeReturn, scrapeError>>
  /\ UNCHANGED notScrape

\* const nextButton = await page.$(...); if (nextButton) {...} else { hasNextPage = false; }
ScrapeProbe ==
  /\ spc = "probe"
  /\ IF HasNext(curPage)
       THEN /\ spc' = "click"
            /\ UNCHANGED hasNextPage
       ELSE /\ spc' = "while"
            /\ hasNextPage' = FALSE
  /\ UNCHANGED <<retryVars, siteVars, step, allResults, pageNum, rowIdx, results,
                 visited, file, writes, scrapeReturn, scrapeError>>
  /\ UNCHANGED notScrape

\* await nextButton.click();
ScrapeClickOk ==
  /\ spc = "click"
  /\ curPage' = NextPage(curPage)
  /\ spc' = "waitTable"
  /\ UNCHANGED <<retryVars, pages, loops, step, allResults, hasNextPage, pageNum, rowIdx,
                 results, visited, file, writes, scrapeReturn, scrapeError>>
  /\ UNCHANGED notScrape

\* nextButton.click() throws
ScrapeClickFail ==
  /\ spc = "click"
  /\ ScrapeFail("clickNext")
  /\ UNCHANGED <<retryVars, siteVars, step, allResults, hasNextPage, pageNum, rowIdx,
                 results, visited, file, writes, scrapeReturn>>
  /\ UNCHANGED notScrape

\* await page.waitForSelector(table, visible); await page.waitForTimeout(2000); pageNum++;
ScrapeWaitOk ==
  /\ spc = "waitTable"
  /\ pageNum < MaxPageNum
  /\ pageNum' = pageNum + 1
  /\ spc' = "while"
  /\ UNCHANGED <<retryVars, siteVars, step, allResults, hasNextPage, rowIdx, results,
                 visited, file, writes, scrapeReturn, scrapeError>>
  /\ UNCHANGED notScrape

\* ScrapeWaitFail saving what was accumulated before rethrowing
ScrapeWaitFailSaves ==
  /\ spc = "waitTable"
  /\ ScrapeFail("waitNextTable")
  /\ file' = JsonStringify(allResults)
  /\ writes' = writes + 1
  /\ UNCHANGED <<retryVars, siteVars, step, allResults, hasNextPage, pageNum, rowIdx,
                 results, visited, scrapeReturn>>
  /\ UNCHANGED notScrape

\* page.waitForSelector(table, visible) throws
ScrapeWaitFail ==
  /\ spc = "waitTable"
  /\ ScrapeFail("waitNextTable")
  /\ UNCHANGED <<retryVars, siteVars, step, allResults, hasNextPage, pageNum, rowIdx,
                 results, visited, file, writes, scrapeReturn>>
  /\ UNCHANGED notScrape

\* await fs.writeFile('licitaciones.json', JSON.stringify(allResults, null, 2));
ScrapeWriteOk ==
  /\ spc = "write"
  /\ file' = JsonStringify(allResults)
  /\ writes' = writes + 1
  /\ spc' = "ret"
  /\ UNCHANGED <<retryVars, siteVars, step, allResults, hasNextPage, pageNum, rowIdx,
                 results, visited, scrapeReturn, scrapeError>>
  /\ UNCHANGED notScrape

\* fs.writeFile rejects
ScrapeWriteFail ==
  /\ spc = "write"
  /\ ScrapeFail("writeFile")
  /\ UNCHANGED <<retryVars, siteVars, step, allResults, hasNextPage, pageNum, rowIdx,
                 results, visited, file, writes, scrapeReturn>>
  /\ UNCHANGED notScrape

\* return allResults;
ScrapeReturn ==
  /\ spc = "ret"
  /\ scrapeReturn' = allResults
  /\ spc' = "returned"
  /\ UNCHANGED <<retryVars, siteVars, step, allResults, hasNextPage, pageNum, rowIdx,
                 results, visited, file, writes, scrapeError>>
  /\ UNCHANGED notScrape

ScrapeStep ==
  \/ ScrapeBegin \/ ScrapeNavDone \/ ScrapeNavFailed \/ ScrapeReadyOk \/ ScrapeReadyFail
  \/ ScrapeWhile \/ TableRowOk \/ TableRowFail \/ TableReturn \/ ScrapeProbe
  \/ ScrapeClickOk \/ ScrapeClickFail \/ ScrapeWaitOk \/ ScrapeWaitFail
  \/ ScrapeWriteOk \/ ScrapeWriteFail \/ ScrapeReturn

\* ---------------------------------------------------------------- the tree widget

\* most expand controls of the widget
MaxControls == 3

Controls == 1..MaxControls

\* a control is revealed by an earlier one or rendered from the start
WidgetSet == {f \in [Controls -> 0..MaxControls] : \A c \in Controls : f[c] < c}

\* the controls currently in the document
InDocument(c) == c \notin expanded /\ (ctlParent[c] = 0 \/ ctlParent[c] \in expanded)

RECURSIVE SortedSeq(_)
SortedSeq(S) ==
  IF S = {} THEN <<>>
  ELSE LET m == CHOOSE x \in S : \A y \in S : x <= y
       IN <<m>> \o SortedSeq(S \ {m})

\* page.$$('img[alt="Click to expand"]')
QueryExpandButtons == SortedSeq({c \in Controls : InDocument(c)})

\* number of levels of expand controls below (and including) c
RECURSIVE LevelOf(_)
LevelOf(c) == IF ctlParent[c] = 0 THEN 1 ELSE 1 + LevelOf(ctlParent[c])

\* ---------------------------------------------------------------- expandAllNodes

\* const maxIterations = 100; // Safety limit
maxIterations == 100

ExpandIdle ==
  /\ epc = "idle"
  /\ keepExpanding = FALSE
  /\ iterations = 0
  /\ expandButtons = <<>>
  /\ btnIdx = 0
  /\ isVisible = FALSE
  /\ clicks = 0

\* let keepExpanding = true; let iterations = 0;
ExpandBegin ==
  /\ epc = "idle"
  /\ epc' = "while"
  /\ keepExpanding' = TRUE
  /\ iterations' = 0
  /\ UNCHANGED <<widgetVars, expandButtons, btnIdx, isVisible, clicks>>
  /\ UNCHANGED notExpand

\* ExpandWhile with the ceiling off by one: iterations <= maxIterations
ExpandWhileOffByOne ==
  /\ epc = "while"
  /\ IF keepExpanding /\ iterations <= maxIterations
       THEN /\ expandButtons' = QueryExpandButtons
            /\ IF QueryExpandButtons = <<>>
                 THEN /\ keepExpanding' = FALSE
                      /\ UNCHANGED <<epc, btnIdx>>
                 ELSE /\ epc' = "for"
                      /\ btnIdx' = 1
                      /\ UNCHANGED keepExpanding
       ELSE /\ epc' = "done"
            /\ UNCHANGED <<keepExpanding, expandButtons, btnIdx>>
  /\ UNCHANGED <<widgetVars, iterations, isVisible, clicks>>
  /\ UNCHANGED notExpand

\* while (keepExpanding && iterations < maxIterations) { query; if (length === 0) {...; continue;}
ExpandWhile ==
  /\ epc = "while"
  /\ IF keepExpanding /\ iterations < maxIterations
       THEN /\ expandButtons' = QueryExpandButtons
            /\ IF QueryExpandButtons = <<>>
                 THEN /\ keepExpanding' = FALSE
                      /\ UNCHANGED <<epc, btnIdx>>
                 ELSE /\ epc' = "for"
                      /\ btnIdx' = 1
                      /\ UNCHANGED keepExpanding
       ELSE /\ epc' = "done"
            /\ UNCHANGED <<keepExpanding, expandButtons, btnIdx>>
  /\ UNCHANGED <<widgetVars, iterations, isVisible, clicks>>
  /\ UNCHANGED notExpand

\* ExpandIsVisible without the if: the button is clicked whatever the check said
ExpandIsVisibleIgnored ==
  /\ epc = "for"
  /\ btnIdx <= Len(expandButtons)
  /\ isVisible' = (ctlKind[expandButtons[btnIdx]] # "hidden")
  /\ epc' = "click"
  /\ UNCHANGED <<widgetVars, keepExpanding, iterations, expandButtons, btnIdx, clicks>>
  /\ UNCHANGED notExpand

\* const isVisible = await button.isVisible(); if (isVisible) ... else next button
ExpandIsVisible ==
  /\ epc = "for"
  /\ btnIdx <= Len(expandButtons)
  /\ isVisible' = (ctlKind[expandButtons[btnIdx]] # "hidden")
  /\ IF isVisible'
       THEN epc' = "click" /\ UNCHANGED btnIdx
       ELSE btnIdx' = btnIdx + 1 /\ UNCHANGED epc
  /\ UNCHANGED <<widgetVars, keepExpanding, iterations, expandButtons, clicks>>
  /\ UNCHANGED notExpand

\* await button.click(); await page.waitForTimeout(50);
ExpandClickOk ==
  /\ epc = "click"
  /\ ctlKind[expandButtons[btnIdx]] # "stuck"
  /\ clicks' = clicks + 1
  /\ expanded' = IF regrow THEN expanded ELSE expanded \cup {expandButtons[btnIdx]}
  /\ btnIdx' = btnIdx + 1
  /\ epc' = "for"
  /\ UNCHANGED <<ctlParent, ctlKind, regrow, keepExpanding, iterations, expandButtons, isVisible>>
  /\ UNCHANGED notExpand

\* button.click() throws: catch (error) { console.warn(...); }
ExpandClickFail ==
  /\ epc = "click"
  /\ ctlKind[expandButtons[btnIdx]] = "stuck"
  /\ btnIdx' = btnIdx + 1
  /\ epc' = "for"
  /\ UNCHANGED <<widgetVars, keepExpanding, iterations, expandButtons, isVisible, clicks>>
  /\ UNCHANGED notExpand

\* ExpandRoundEnd that stops after one round: keepExpanding = false
ExpandRoundEndOnce ==
  /\ epc = "for"
  /\ btnIdx > Len(expandButtons)
  /\ iterations' = iterations + 1
  /\ keepExpanding' = FALSE
  /\ epc' = "while"
  /\ UNCHANGED <<widgetVars, expandButtons, btnIdx, isVisible, clicks>>
  /\ UNCHANGED notExpand

\* after the for loop: await page.waitForTimeout(500); iterations++;
ExpandRoundEnd ==
  /\ epc = "for"
  /\ btnIdx > Len(expandButtons)
  /\ iterations' = iterations + 1
  /\ epc' = "while"
  /\ UNCHANGED <<widgetVars, keepExpanding, expandButtons, btnIdx, isVisible, clicks>>
  /\ UNCHANGED notExpand

\* ---------------------------------------------------------------- the rendered tree

\* most nodes of the stream, deepest indentation level rendered
MaxNodes == 4
MaxLevel == 3

\* return Math.floor(width / 19); // Each level is indented by 19px
IndentPx == 19

\* the outcomes of reading one node: the label element is missing, its text is
\* empty, reading the indentation throws, or label and indentation are read
BadReads == {"noLabel", "emptyText", "throws"}

\* the indentation widths rendered: the multiples of the indent and one width in between
Widths == {l * IndentPx : l \in 0..MaxLevel} \cup {IndentPx - 1}

\* getNodeLevel
getNodeLevel(width) == width \div IndentPx

Readable(n) == nodes[n].read = "ok"

\* cpvNode.level of node n
LevelAt(n) == getNodeLevel(nodes[n].width)

\* ---------------------------------------------------------------- scrapeCPVTree (depth based)

DepthNodeSet ==
  {[read |-> "ok", width |-> w] : w \in Widths} \cup {[read |-> r, width |-> 0] : r \in BadReads}

DepthIdle ==
  /\ dpc = "idle"
  /\ dIdx = 0
  /\ cpvData = <<>>
  /\ dChildren = <<>>
  /\ dDropped = {}

\* the array a walk stands on: cpvData (owner 0) or the children of a node
ArrayOf(owner) == IF owner = 0 THEN cpvData ELSE dChildren[owner]

\* let currentLevel = cpvData; for (i < level - 1) currentLevel = currentLevel[length - 1].children || [];
\* the owner of the array reached after k steps, or -1 when a step reads the last
\* element of an empty array and throws
RECURSIVE Descend(_, _)
Descend(owner, k) ==
  IF k = 0 THEN owner
  ELSE IF ArrayOf(owner) = <<>> THEN 0 - 1
  ELSE Descend(ArrayOf(owner)[Len(ArrayOf(owner))], k - 1)

\* the array cpvNode is pushed to, for a node of level >= 1
ParentArray(level) == Descend(0, level - 1)

\* const cpvData = []; const nodes = await page.$$(...);
DepthBegin ==
  /\ dpc = "idle"
  /\ dpc' = "for"
  /\ dIdx' = 1
  /\ cpvData' = <<>>
  /\ dChildren' = [n \in 1..Len(nodes) |-> <<>>]
  /\ UNCHANGED <<nodes, dDropped>>
  /\ UNCHANGED notDepth

\* if (!labelElement) continue; if (!labelText) continue; getNodeLevel throws -> catch
DepthSkip ==
  /\ dpc = "for"
  /\ dIdx <= Len(nodes)
  /\ ~Readable(dIdx)
  /\ dIdx' = dIdx + 1
  /\ UNCHANGED <<nodes, dpc, cpvData, dChildren, dDropped>>
  /\ UNCHANGED notDepth

\* if (level === 0) { cpvData.push(cpvNode); }
DepthRoot ==
  /\ dpc = "for"
  /\ dIdx <= Len(nodes)
  /\ Readable(dIdx)
  /\ LevelAt(dIdx) = 0
  /\ cpvData' = Append(cpvData, dIdx)
  /\ dIdx' = dIdx + 1
  /\ UNCHANGED <<nodes, dpc, dChildren, dDropped>>
  /\ UNCHANGED notDepth

\* else { walk; currentLevel.push(cpvNode); }
DepthAttach ==
  /\ dpc = "for"
  /\ dIdx <= Len(nodes)
  /\ Readable(dIdx)
  /\ LevelAt(dIdx) > 0
  /\ ParentArray(LevelAt(dIdx)) >= 0
  /\ IF ParentArray(LevelAt(dIdx)) = 0
       THEN /\ cpvData' = Append(cpvData, dIdx)
            /\ UNCHANGED dChildren
       ELSE /\ dChildren' = [dChildren EXCEPT ![ParentArray(LevelAt(dIdx))] = Append(@, dIdx)]
            /\ UNCHANGED cpvData
  /\ dIdx' = dIdx + 1
  /\ UNCHANGED <<nodes, dpc, dDropped>>
  /\ UNCHANGED notDepth

\* the walk reads .children of undefined: catch (error) { console.error('Error processing node:', error); }
DepthWalkThrows ==
  /\ dpc = "for"
  /\ dIdx <= Len(nodes)
  /\ Readable(dIdx)
  /\ LevelAt(dIdx) > 0
  /\ ParentArray(LevelAt(dIdx)) < 0
  /\ dDropped' = dDropped \cup {dIdx}
  /\ dIdx' = dIdx + 1
  /\ UNCHANGED <<nodes, dpc, cpvData, dChildren>>
  /\ UNCHANGED notDepth

\* return cpvData;
DepthReturn ==
  /\ dpc = "for"
  /\ dIdx > Len(nodes)
  /\ dpc' = "done"
  /\ UNCHANGED <<nodes, dIdx, cpvData, dChildren, dDropped>>
  /\ UNCHANGED notDepth

\* ---------------------------------------------------------------- scrapeCPVTree (path based)

\* most nodes of the stream, longest positional path (number of sibling indices)
MaxPathNodes == 3
MaxPathLen == 3

\* the sibling indices an element may have under its parent element
Siblings == {0, 1}

\* the positions elements may have in the document: indices from the document root down
PositionSet == SeqsUpTo(Siblings, MaxPathLen) \ {<<>>}

\* document order of two positions: an element precedes its descendants and
\* everything under its later siblings
RECURSIVE Precedes(_, _)
Precedes(p, q) ==
  IF p = <<>> THEN q # <<>>
  ELSE IF q = <<>> THEN FALSE
  ELSE IF Head(p) # Head(q) THEN Head(p) < Head(q)
  ELSE Precedes(Tail(p), Tail(q))

PathNodeSet ==
  {[read |-> "ok", pos |-> p] : p \in PositionSet} \cup {[read |-> r, pos |-> <<>>] : r \in BadReads}

\* page.$$ returns distinct elements in document order
InDocumentOrder(s) ==
  \A i, j \in 1..Len(s) :
    (i < j /\ s[i].read = "ok" /\ s[j].read = "ok") => Precedes(s[i].pos, s[j].pos)

\* the decimal text of an index, as a sequence of characters
RECURSIVE NumberText(_)
NumberText(n) == IF n < 10 THEN <<Digit[n]>> ELSE NumberText(n \div 10) \o <<Digit[n % 10]>>

\* Array.prototype.join('-') over pieces of text
RECURSIVE Join(_)
Join(parts) ==
  IF parts = <<>> THEN <<>>
  ELSE IF Len(parts) = 1 THEN parts[1]
  ELSE parts[1] \o <<"-">> \o Join(Tail(parts))

\* String.prototype.split('-'): the empty string splits into one empty piece
RECURSIVE Split(_)
Split(str) ==
  IF \A i \in 1..Len(str) : str[i] # "-" THEN <<str>>
  ELSE LET i == CHOOSE k \in 1..Len(str) : str[k] = "-" /\ \A m \in 1..(k - 1) : str[m] # "-"
       IN <<SubSeq(str, 1, i - 1)>> \o Split(SubSeq(str, i + 1, Len(str)))

\* node.evaluate(el => { ...; return indices.join('-'); })
PathKey(pos) == Join([i \in 1..Len(pos) |-> NumberText(pos[i])])

\* ParentPath dropping the first segment instead of the last: slice(1)
ParentPathDropFirst(path) == Join(SubSeq(Split(path), 2, Len(Split(path))))

\* path.split('-').slice(0, -1).join('-')
ParentPath(path) == Join(SubSeq(Split(path), 1, Len(Split(path)) - 1))

PathIdle ==
  /\ ppc = "idle"
  /\ pIdx = 0
  /\ nodeMap = <<>>
  /\ rootNodes = <<>>
  /\ pChildren = <<>>

\* const nodes = await page.$$(...); const nodeMap = new Map(); const rootNodes = [];
PathBegin ==
  /\ ppc = "idle"
  /\ ppc' = "for"
  /\ pIdx' = 1
  /\ nodeMap' = <<>>
  /\ rootNodes' = <<>>
  /\ pChildren' = [n \in 1..Len(nodes) |-> <<>>]
  /\ UNCHANGED nodes
  /\ UNCHANGED notPath

\* if (!labelElement) continue; if (!labelText) continue; a read throws -> catch
PathSkip ==
  /\ ppc = "for"
  /\ pIdx <= Len(nodes)
  /\ ~Readable(pIdx)
  /\ pIdx' = pIdx + 1
  /\ UNCHANGED <<nodes, ppc, nodeMap, rootNodes, pChildren>>
  /\ UNCHANGED notPath

\* nodeMap.set(path, cpvNode); const parent = nodeMap.get(parentPath);
\* if (parent) { parent.children.push(cpvNode); }
\* mutant of PathAttach: parent.children.unshift(cpvNode)
PathAttachUnshift ==
  /\ ppc = "for"
  /\ pIdx <= Len(nodes)
  /\ Readable(pIdx)
  /\ LET path == PathKey(nodes[pIdx].pos)
         map == (path :> pIdx) @@ nodeMap
     IN /\ ParentPath(path) \in DOMAIN map
        /\ nodeMap' = map
        /\ pChildren' = [pChildren EXCEPT ![map[ParentPath(path)]] = <<pIdx>> \o @]
  /\ pIdx' = pIdx + 1
  /\ UNCHANGED <<nodes, ppc, rootNodes>>
  /\ UNCHANGED notPath

PathAttach ==
  /\ ppc = "for"
  /\ pIdx <= Len(nodes)
  /\ Readable(pIdx)
  /\ LET path == PathKey(nodes[pIdx].pos)
         map == (path :> pIdx) @@ nodeMap
     IN /\ ParentPath(path) \in DOMAIN map
        /\ nodeMap' = map
        /\ pChildren' = [pChildren EXCEPT ![map[ParentPath(path)]] = Append(@, pIdx)]
  /\ pIdx' = pIdx + 1
  /\ UNCHANGED <<nodes, ppc, rootNodes>>
  /\ UNCHANGED notPath

\* else { rootNodes.push(cpvNode); }
\* mutant of PathRoot: a node whose parent is not in nodeMap is not pushed
PathRootDrops ==
  /\ ppc = "for"
  /\ pIdx <= Len(nodes)
  /\ Readable(pIdx)
  /\ LET path == PathKey(nodes[pIdx].pos)
         map == (path :> pIdx) @@ nodeMap
     IN /\ ParentPath(path) \notin DOMAIN map
        /\ nodeMap' = map
  /\ rootNodes' = IF Len(nodes[pIdx].pos) > 1 THEN rootNodes ELSE Append(rootNodes, pIdx)
  /\ pIdx' = pIdx + 1
  /\ UNCHANGED <<nodes, ppc, pChildren>>
  /\ UNCHANGED notPath

PathRoot ==
  /\ ppc = "for"
  /\ pIdx <= Len(nodes)
  /\ Readable(pIdx)
  /\ LET path == PathKey(nodes[pIdx].pos)
         map == (path :> pIdx) @@ nodeMap
     IN /\ ParentPath(path) \notin DOMAIN map
        /\ nodeMap' = map
  /\ rootNodes' = Append(rootNodes, pIdx)
  /\ pIdx' = pIdx + 1
  /\ UNCHANGED <<nodes, ppc, pChildren>>
  /\ UNCHANGED notPath

\* return rootNodes;
PathReturn ==
  /\ ppc = "for"
  /\ pIdx > Len(nodes)
  /\ ppc' = "done"
  /\ UNCHANGED <<nodes, pIdx, nodeMap, rootNodes, pChildren>>
  /\ UNCHANGED notPath

\* ---------------------------------------------------------------- specifications

SiteIdle ==
  /\ pages = <<>>
  /\ loops = FALSE
  /\ curPage = 0

TreeIdle == nodes = <<>>

WidgetIdle ==
  /\ ctlParent = <<>>
  /\ ctlKind = <<>>
  /\ regrow = FALSE
  /\ expanded = {}

\* retryOperation called on its own
CellIdle == tdImporte = [present |-> FALSE, text |-> <<>>]

RowAbsent ==
  row = [tdExpediente |-> FALSE, textoEnlace |-> FALSE, descripcion |-> FALSE,
         imgELicitacion |-> FALSE, deeplink |-> FALSE,
         tdTipoContrato |-> FALSE, tipo |-> FALSE, subtipo |-> FALSE,
         tdEstado |-> FALSE, tdFechaLimite |-> Absent,
         tdOrganoContratacion |-> FALSE, organoLink |-> FALSE]

ExtractIdle == CellIdle /\ ImporteIdle /\ RowAbsent /\ RowIdle

OthersIdle == TreeIdle /\ DepthIdle /\ PathIdle /\ ExtractIdle

InitRetry == RetryIdle /\ SiteIdle /\ ScrapeIdle /\ WidgetIdle /\ ExpandIdle /\ OthersIdle

NextRetry == CallRetry \/ RetryStep

SpecRetry == InitRetry /\ [][NextRetry]_vars

\* scrape on a listing site
InitScrape ==
  /\ RetryIdle
  /\ ScrapeIdle
  /\ WidgetIdle
  /\ ExpandIdle
  /\ OthersIdle
  /\ pages \in SiteSet
  /\ loops \in BOOLEAN
  /\ curPage = 1

NextScrape == ScrapeStep \/ RetryStep

SpecScrape == InitScrape /\ [][NextScrape]_vars

\* the event loop keeps running the pending continuation
SpecScrapeFair == SpecScrape /\ WF_vars(NextScrape)

\* expandAllNodes on a tree widget
InitExpand ==
  /\ RetryIdle
  /\ SiteIdle
  /\ ScrapeIdle
  /\ ExpandIdle
  /\ OthersIdle
  /\ ctlParent \in WidgetSet
  /\ ctlKind \in [Controls -> {"ok", "hidden", "stuck"}]
  /\ regrow \in BOOLEAN
  /\ expanded = {}

NextExpand ==
  \/ ExpandBegin \/ ExpandWhile \/ ExpandIsVisible \/ ExpandClickOk \/ ExpandClickFail
  \/ ExpandRoundEnd

SpecExpand == InitExpand /\ [][NextExpand]_vars

\* the depth-based scrapeCPVTree on a rendered tree
InitDepth ==
  /\ RetryIdle
  /\ SiteIdle
  /\ ScrapeIdle
  /\ WidgetIdle
  /\ ExpandIdle
  /\ DepthIdle
  /\ PathIdle
  /\ ExtractIdle
  /\ \E k \in 0..MaxNodes : nodes \in [1..k -> DepthNodeSet]

NextDepth ==
  \/ DepthBegin \/ DepthSkip \/ DepthRoot \/ DepthAttach \/ DepthWalkThrows \/ DepthReturn

SpecDepth == InitDepth /\ [][NextDepth]_vars

\* the path-based scrapeCPVTree on a rendered tree
InitPath ==
  /\ RetryIdle
  /\ SiteIdle
  /\ ScrapeIdle
  /\ WidgetIdle
  /\ ExpandIdle
  /\ DepthIdle
  /\ PathIdle
  /\ ExtractIdle
  /\ \E k \in 0..MaxPathNodes : nodes \in [1..k -> PathNodeSet]
  /\ InDocumentOrder(nodes)

NextPath == PathBegin \/ PathSkip \/ PathAttach \/ PathRoot \/ PathReturn

SpecPath == InitPath /\ [][NextPath]_vars

\* one of the two scrapeCPVTree functions on a rendered tree; the function
\* that is not called stays "off"
InitTrees ==
  /\ RetryIdle
  /\ SiteIdle
  /\ ScrapeIdle
  /\ WidgetIdle
  /\ ExpandIdle
  /\ ExtractIdle
  /\ dIdx = 0
  /\ cpvData = <<>>
  /\ dChildren = <<>>
  /\ dDropped = {}
  /\ pIdx = 0
  /\ nodeMap = <<>>
  /\ rootNodes = <<>>
  /\ pChildren = <<>>
  /\ \/ /\ dpc = "idle"
        /\ ppc = "off"
        /\ \E k \in 0..MaxNodes : nodes \in [1..k -> DepthNodeSet]
     \/ /\ dpc = "off"
        /\ ppc = "idle"
        /\ \E k \in 0..MaxPathNodes : nodes \in [1..k -> PathNodeSet]
        /\ InDocumentOrder(nodes)

NextTrees ==
  \/ DepthBegin \/ DepthSkip \/ DepthRoot \/ DepthAttach \/ DepthWalkThrows \/ DepthReturn
  \/ PathBegin \/ PathSkip \/ PathAttach \/ PathRoot \/ PathReturn

SpecTrees == InitTrees /\ [][NextTrees]_vars

\* scrape on a site whose rows carry an amount cell
InitScrapeFile ==
  /\ RetryIdle
  /\ ScrapeIdle
  /\ WidgetIdle
  /\ ExpandIdle
  /\ TreeIdle
  /\ DepthIdle
  /\ PathIdle
  /\ ImporteIdle
  /\ RowAbsent
  /\ RowIdle
  /\ tdImporte \in AmountCells
  /\ pages \in SiteSet
  /\ loops \in BOOLEAN
  /\ curPage = 1

SpecScrapeFile == InitScrapeFile /\ [][NextScrape]_vars

\* extractImporte on an amount cell
InitImporte ==
  /\ RetryIdle
  /\ SiteIdle
  /\ ScrapeIdle
  /\ WidgetIdle
  /\ ExpandIdle
  /\ TreeIdle
  /\ DepthIdle
  /\ PathIdle
  /\ ImporteIdle
  /\ tdImporte \in CellSet
  /\ RowAbsent
  /\ RowIdle

NextImporte == ImporteText \/ ImporteStrip \/ ImporteReturn

SpecImporte == InitImporte /\ [][NextImporte]_vars

\* extractRowData on a row
InitRow ==
  /\ RetryIdle
  /\ SiteIdle
  /\ ScrapeIdle
  /\ WidgetIdle
  /\ ExpandIdle
  /\ TreeIdle
  /\ DepthIdle
  /\ PathIdle
  /\ ImporteIdle
  /\ RowIdle
  /\ tdImporte \in AmountCells
  /\ row \in RowSet

NextRow ==
  \/ RowExpediente
  \/ RowExpedienteThrows
  \/ RowTipoContrato
  \/ RowTipoContratoThrows
  \/ RowEstado
  \/ RowImporte
  \/ RowFecha
  \/ RowOrgano
  \/ RowOrganoThrows
  \/ RowReturn

SpecRow == InitRow /\ [][NextRow]_vars

\* ---------------------------------------------------------------- properties: scrape

\* the records of the rows of page p from row r on whose extraction succeeds
RECURSIVE RowsFrom(_, _)
RowsFrom(p, r) ==
  IF r > Len(pages[p]) THEN <<>>
  ELSE (IF pages[p][r] THEN <<RecordOf(p, r)>> ELSE <<>>) \o RowsFrom(p, r + 1)

\* the concatenation of the per-page results from page p on
RECURSIVE HarvestFrom(_)
HarvestFrom(p) == IF p > Len(pages) THEN <<>> ELSE RowsFrom(p, 1) \o HarvestFrom(p + 1)

\* C1: on a finite page sequence whose last page alone has no enabled "next"
\* control, scrape returns the concatenation of the pages' extracted rows, in
\* page order and row order, failed rows left out, each page extracted once.
C1_HarvestIsConcatenation ==
  (spc = "returned" /\ ~loops) =>
    /\ scrapeReturn = HarvestFrom(1)
    /\ visited = [i \in 1..Len(pages) |-> i]

\* two pages of two rows, one row of each failing, were harvested
C1_Witness ==
  /\ spc = "returned"
  /\ ~loops
  /\ pages = <<(<<TRUE, FALSE>>), (<<FALSE, TRUE>>)>>
  /\ scrapeReturn = <<RecordOf(1, 1), RecordOf(2, 2)>>

Range(f) == {f[i] : i \in DOMAIN f}

C4_LoopEndsIffNoNext ==
  /\ [](spc \in {"write", "ret", "returned"} => (~hasNextPage /\ ~HasNext(curPage)))
  /\ [][(spc = "probe" /\ ~HasNext(curPage)) => (spc' = "while" /\ ~hasNextPage')]_vars
  /\ [][(spc = "while" /\ ~hasNextPage) => spc' = "write"]_vars
  /\ [](loops => spc \notin {"write", "ret", "returned"})
  /\ (~loops => <>(spc \in {"returned", "failed"}))

\* scrape returned after following the "next" control to the last page
C4_Witness ==
  /\ spc = "returned"
  /\ ~loops
  /\ Len(pages) > 1
  /\ pageNum = Len(pages)

\* ---------------------------------------------------------------- properties: retryOperation

\* C2: when every attempt fails (maxAttempts >= 1), operation was invoked
\* exactly maxAttempts times and the error thrown is the last attempt's own.
C2_ExhaustedThrowsLastError ==
  (rpc = "failed" /\ maxAttempts >= 1) =>
    /\ calls = maxAttempts
    /\ Len(opLog) = maxAttempts
    /\ \A i \in 1..maxAttempts : opLog[i] \in Errors \cup GotoErrors
    /\ retThrown = opLog[maxAttempts]

\* three attempts failed, the last with another error than the first
C2_Witness ==
  /\ rpc = "failed"
  /\ maxAttempts = 3
  /\ opLog = <<"E1", "E1", "E2">>
  /\ retThrown = "E2"

\* C3: when attempt k is the first to succeed, retryOperation returns its
\* value after exactly k invocations, k <= maxAttempts, and no invocation
\* follows a success.
C3_ReturnsFirstSuccess ==
  /\ \A i \in 1..(Len(opLog) - 1) : opLog[i] \in Errors \cup GotoErrors
  /\ calls = Len(opLog)
  /\ rpc = "returned" =>
       /\ calls >= 1
       /\ calls <= maxAttempts
       /\ opLog[calls] \in Values \cup GotoValues
       /\ retResult = opLog[calls]

\* two failures, then the third of three attempts succeeded
C3_Witness ==
  /\ rpc = "returned"
  /\ maxAttempts = 3
  /\ opLog = <<"E1", "E2", "V1">>
  /\ retResult = "V1"

\* ---------------------------------------------------------------- properties: expandAllNodes

\* every control is visible and activating it removes it
WellBehavedWidget == ~regrow /\ \A c \in Controls : ctlKind[c] = "ok"

\* the number of levels of expand controls of the widget
WidgetLevels == CHOOSE l \in 1..MaxControls :
                  /\ \E c \in Controls : LevelOf(c) = l
                  /\ \A c \in Controls : LevelOf(c) <= l

\* C5: on a widget with finitely many levels (fewer than 100) whose controls
\* are all visible and disappear when activated, expandAllNodes makes one round
\* per level, fewer than 100, and at return no expand control is left.
C5_FiniteWidgetFullyExpanded ==
  WellBehavedWidget =>
    /\ iterations <= WidgetLevels
    /\ epc = "done" =>
         /\ iterations = WidgetLevels
         /\ iterations < maxIterations
         /\ QueryExpandButtons = <<>>
         /\ ~keepExpanding

\* a widget of three nested levels was expanded in three rounds
C5_Witness ==
  /\ epc = "done"
  /\ WellBehavedWidget
  /\ ctlParent = <<0, 1, 2>>
  /\ iterations = 3
  /\ clicks = 3

\* C6: when every query yields at least one expand control, expandAllNodes
\* makes exactly 100 rounds and then returns normally.
C6_CeilingEndsPathologicalWidget ==
  /\ iterations <= maxIterations
  /\ epc \in {"idle", "while", "for", "click", "done"}
  /\ (epc = "done" /\ keepExpanding) => iterations = maxIterations

\* a widget that regrows its controls was left after 100 rounds
C6_Witness ==
  /\ epc = "done"
  /\ keepExpanding
  /\ regrow
  /\ iterations = maxIterations
  /\ clicks >= maxIterations

\* ---------------------------------------------------------------- properties: reconstruction

\* the set S of node indices as a sequence in stream order
InStreamOrder(S) == SortedSeq(S)

\* every node of the stream was read and the depths list a forest in preorder:
\* the first node is a root and no node is more than one level below its predecessor
PreorderOfForest ==
  /\ nodes # <<>>
  /\ \A n \in 1..Len(nodes) : Readable(n)
  /\ LevelAt(1) = 0
  /\ \A n \in 2..Len(nodes) : LevelAt(n) <= LevelAt(n - 1) + 1

\* the read nodes before n that are one level above it
OneLevelAbove(n) ==
  {m \in 1..(n - 1) : Readable(m) /\ LevelAt(m) = LevelAt(n) - 1}

\* the parent of n in the known forest: the most recent node one level above (0: none)
KnownDepthParent(n) ==
  IF OneLevelAbove(n) = {} THEN 0
  ELSE CHOOSE m \in OneLevelAbove(n) : \A k \in OneLevelAbove(n) : k <= m

\* C7: for the preorder listing of a forest (roots at depth 0, children one
\* deeper than their parent), the depth-based scrapeCPVTree returns that forest:
\* the depth-0 nodes are the roots and each deeper node is a child of the most
\* recent preceding node one level above.
C7_DepthRoundTrip ==
  (dpc = "done" /\ PreorderOfForest) =>
    /\ cpvData = InStreamOrder({n \in 1..Len(nodes) : LevelAt(n) = 0})
    /\ \A m \in 1..Len(nodes) :
         dChildren[m] = InStreamOrder({n \in 1..Len(nodes) :
                                        LevelAt(n) > 0 /\ KnownDepthParent(n) = m})

\* C9: a node that was read and whose parent cannot be found (no preceding
\* node one level above it) is a root of the result of the depth-based
\* scrapeCPVTree, not dropped.
C9_OrphanPromoted ==
  dpc = "done" =>
    \A n \in 1..Len(nodes) :
      (Readable(n) /\ LevelAt(n) >= 1 /\ KnownDepthParent(n) = 0) => n \in Range(cpvData)

\* the position one element up
Front(pos) == SubSeq(pos, 1, Len(pos) - 1)

\* the parent of n in the known forest: the node at the position one element up (0: none)
KnownPathParent(n) ==
  IF \E m \in 1..Len(nodes) : Readable(m) /\ nodes[m].pos = Front(nodes[n].pos)
  THEN CHOOSE m \in 1..Len(nodes) : Readable(m) /\ nodes[m].pos = Front(nodes[n].pos)
  ELSE 0

\* C8: for a stream in document order in which every node was read, the
\* path-based scrapeCPVTree returns the forest the positions describe: each
\* node is a child of the node whose position is its own without the last
\* index, the nodes without such a node are the roots, all in stream order.
C8_PathRoundTrip ==
  (ppc = "done" /\ \A n \in 1..Len(nodes) : Readable(n)) =>
    /\ rootNodes = InStreamOrder({n \in 1..Len(nodes) : KnownPathParent(n) = 0})
    /\ \A m \in 1..Len(nodes) :
         pChildren[m] = InStreamOrder({n \in 1..Len(nodes) : KnownPathParent(n) = m})

\* a root, its child and its grandchild were rebuilt as a chain
C8_Witness ==
  /\ ppc = "done"
  /\ Len(nodes) = 3
  /\ \A n \in 1..3 : Readable(n)
  /\ nodes[1].pos = <<0>>
  /\ nodes[2].pos = <<0, 1>>
  /\ nodes[3].pos = <<0, 1, 0>>
  /\ rootNodes = <<1>>
  /\ pChildren = <<(<<2>>), (<<3>>), (<<>>)>>

\* ---------------------------------------------------------------- properties: scrapeTable, backoff, traversal failures

\* the records of the rows 1..r of page p whose extraction succeeds
RECURSIVE RowsUntil(_, _)
RowsUntil(p, r) ==
  IF r = 0 THEN <<>>
  ELSE RowsUntil(p, r - 1) \o (IF pages[p][r] THEN <<RecordOf(p, r)>> ELSE <<>>)

\* C11: a row whose extraction throws never ends scrapeTable: while it runs
\* its results are the rows processed so far that extract, in document order;
\* it returns only after the last row, with exactly the failing rows left out.
C11_RowFailuresSkipped ==
  /\ spc = "table" =>
       /\ rowIdx <= Len(pages[curPage]) + 1
       /\ results = RowsUntil(curPage, rowIdx - 1)
  /\ spc = "probe" =>
       /\ rowIdx = Len(pages[curPage]) + 1
       /\ results = RowsUntil(curPage, Len(pages[curPage]))
  /\ spc = "failed" => scrapeError \in GotoErrors \cup Range(ReadySteps)
                                     \cup {"clickNext", "waitNextTable", "writeFile"}

\* a page whose first row throws and whose second extracts was returned
C11_Witness ==
  /\ spc = "probe"
  /\ pages[curPage] = <<FALSE, TRUE>>
  /\ results = <<RecordOf(curPage, 2)>>

\* C16: the delays are 1, 2, ... base delays of 1000 ms, one after each
\* failed attempt but the last; none follows the final failure or a success.
C16_LinearBackoff ==
  /\ waits = [i \in 1..Len(waits) |-> i * 1000]
  /\ rpc \in {"loop", "call"} => Len(waits) = calls
  /\ rpc = "wait" => (Len(waits) = calls - 1 /\ calls < maxAttempts)
  /\ rpc = "returned" => Len(waits) = calls - 1
  /\ (rpc \in {"throw", "failed"} /\ maxAttempts >= 1) => Len(waits) = maxAttempts - 1

\* three failed attempts were separated by waits of 1000 and 2000 ms
C16_Witness ==
  /\ rpc = "failed"
  /\ maxAttempts = 3
  /\ calls = 3
  /\ waits = <<1000, 2000>>

\* C17: when activating "next" or waiting for the refreshed table fails after
\* a page was accumulated, scrape throws that very error, without another
\* try of the step and without having written licitaciones.json.
C17_TraversalFailureFatal ==
  (spc = "failed" /\ scrapeError \in {"clickNext", "waitNextTable"}) =>
    /\ Len(visited) >= 1
    /\ Len(visited) = pageNum
    /\ writes = 0
    /\ file = <<>>
    /\ scrapeReturn = <<>>

\* the wait for the second page failed with one record accumulated
C17_Witness ==
  /\ spc = "failed"
  /\ scrapeError = "waitNextTable"
  /\ Len(allResults) >= 1
  /\ pageNum = 1
  /\ writes = 0

\* ---------------------------------------------------------------- properties: extractImporte

\* the text is a decimal literal: digits, optionally with a dot among or around them
IsNumeric(str) ==
  /\ \E i \in 1..Len(str) : IsDigit(str[i])
  /\ \A i \in 1..Len(str) : IsDigit(str[i]) \/ str[i] = "."
  /\ Cardinality({i \in 1..Len(str) : str[i] = "."}) <= 1

\* C14: for every amount cell text extractImporte returns a number that is
\* not NaN and not negative, and 0 whenever what is left of the text after
\* stripping (comma turned into a dot) is empty or not numeric.
C14_ImporteIsNumberOrZero ==
  ipc = "returned" =>
    /\ importe.kind = "number"
    /\ importe.mant >= 0
    /\ (numericValue = <<>> \/ ~IsNumeric(numericValue)) => importe = Num(0, 0)

\* ---------------------------------------------------------------- properties: extractRowData

\* C12: extractRowData never throws because an element of the row is missing;
\* it returns a complete record in which the field of every missing cell or
\* sub-element holds its default (empty string, false, empty link, 0).
C12_MissingElementYieldsDefault ==
  /\ xpc # "threw"
  /\ xpc = "returned" =>
       /\ ~row.textoEnlace => rowData.expediente.numero = <<>>
       /\ ~row.descripcion => rowData.expediente.descripcion = <<>>
       /\ ~row.imgELicitacion => rowData.expediente.licitacionElectronica = FALSE
       /\ ~row.deeplink => rowData.expediente.enlace = <<>>
       /\ ~row.tipo => rowData.tipoContrato.tipo = <<>>
       /\ ~row.subtipo => rowData.tipoContrato.subtipo = <<>>
       /\ ~row.tdEstado => rowData.estado = <<>>
       /\ ~tdImporte.present => rowData.importe = Num(0, 0)
       /\ ~row.tdFechaLimite.present => rowData.fechaPresentacion = <<>>
       /\ ~row.tdOrganoContratacion => rowData.organoContratacion.nombre = <<>>
       /\ ~row.organoLink => rowData.organoContratacion.enlace = <<>>

\* ---------------------------------------------------------------- properties: the written file

\* C13: whenever scrape returns, the record array in licitaciones.json is
\* exactly the returned sequence (same length, same records, same order), and
\* the file was written exactly once, after the last page was extracted and
\* before the return.
C13_FileEqualsReturned ==
  /\ spc = "returned" => (file = scrapeReturn /\ writes = 1)
  /\ spc = "ret" => (file = JsonStringify(allResults) /\ writes = 1 /\ ~hasNextPage)
  /\ spc \notin {"ret", "returned"} => (writes = 0 /\ file = <<>>)

\* ---------------------------------------------------------------- properties: the forests

\* C15: in the forest the depth-based scrapeCPVTree builds, the recorded level
\* of every child is exactly one more than the recorded level of its parent.
C15_ChildOneLevelBelowParent ==
  \A m \in DOMAIN dChildren :
    \A i \in 1..Len(dChildren[m]) : LevelAt(dChildren[m][i]) = LevelAt(m) + 1

\* the members of seq are in stream order
InReadOrder(seq) == \A i, j \in 1..Len(seq) : i < j => seq[i] < seq[j]

\* C18: both scrapeCPVTree functions keep document order: the roots sequence
\* and every children sequence list their nodes in the order they were read
\* from the stream.
C18_DocumentOrderKept ==
  /\ InReadOrder(cpvData)
  /\ \A m \in DOMAIN dChildren : InReadOrder(dChildren[m])
  /\ InReadOrder(rootNodes)
  /\ \A m \in DOMAIN pChildren : InReadOrder(pChildren[m])

\* the depth-based function returned two roots and a node with two children
C18_Witness ==
  /\ dpc = "done"
  /\ Len(cpvData) >= 2
  /\ \E m \in DOMAIN dChildren : Len(dChildren[m]) >= 2

\* the nodes of the forest the depth-based function built
DepthForest == Range(cpvData) \cup UNION {Range(dChildren[m]) : m \in DOMAIN dChildren}

\* the nodes of the forest the path-based function built
PathForest == Range(rootNodes) \cup UNION {Range(pChildren[m]) : m \in DOMAIN pChildren}

\* the levels the nodes of the stream can have in the rendered tree: the ones
\* read, and for a node that could not be read any level that keeps the
\* stream a preorder listing
TreeLevels ==
  {f \in [1..Len(nodes) -> 0..MaxLevel] :
     /\ \A n \in 1..Len(nodes) : Readable(n) => f[n] = LevelAt(n)
     /\ Len(nodes) >= 1 => f[1] = 0
     /\ \A n \in 2..Len(nodes) : f[n] <= f[n - 1] + 1}

\* the ancestors of n in the tree with levels f
AncestorsIn(f, n) ==
  {m \in 1..(n - 1) : f[m] < f[n] /\ \A k \in (m + 1)..n : f[k] > f[m]}

\* n can be a descendant of a node that could not be read
UnderSkippedDepthNode(n) ==
  \E f \in TreeLevels : \E m \in AncestorsIn(f, n) : ~Readable(m)

\* n can be a descendant of a node that could not be read: one was skipped
\* before n, and no read node has some position above n
UnderSkippedPathNode(n) ==
  /\ \E m \in 1..(n - 1) : ~Readable(m)
  /\ \E j \in 1..(Len(nodes[n].pos) - 1) :
       \A m \in 1..Len(nodes) : Readable(m) => nodes[m].pos # SubSeq(nodes[n].pos, 1, j)

\* C19: in both scrapeCPVTree functions a node that cannot be read does not
\* end the reconstruction: the loop reaches the end of the stream, the node is
\* not in the result, and a read node that would descend from a skipped node
\* is in the result, as a root or as a child of a node that was read.
C19_UnreadableNodeOnlySkipped ==
  /\ dpc = "done" =>
       /\ dIdx = Len(nodes) + 1
       /\ \A n \in 1..Len(nodes) :
            /\ ~Readable(n) => (n \notin DepthForest /\ dChildren[n] = <<>>)
            /\ (Readable(n) /\ UnderSkippedDepthNode(n)) => n \in DepthForest
  /\ ppc = "done" =>
       /\ pIdx = Len(nodes) + 1
       /\ \A n \in 1..Len(nodes) :
            /\ ~Readable(n) => (n \notin PathForest /\ pChildren[n] = <<>>)
            /\ (Readable(n) /\ UnderSkippedPathNode(n)) => n \in PathForest

\* the places of the path-based forest: <<0, i>> is the i-th root, <<m, i>>
\* the i-th child of node m
PathSlots ==
  {<<0, i>> : i \in 1..Len(rootNodes)}
    \cup UNION {{<<m, i>> : i \in 1..Len(pChildren[m])} : m \in DOMAIN pChildren}

\* the node at a place
PathSlotNode(sl) == IF sl[1] = 0 THEN rootNodes[sl[2]] ELSE pChildren[sl[1]][sl[2]]

\* the read nodes have pairwise distinct path keys
DistinctPathKeys ==
  \A m, n \in 1..Len(nodes) :
    (Readable(m) /\ Readable(n) /\ m # n) => PathKey(nodes[m].pos) # PathKey(nodes[n].pos)

\* C20: for a stream with pairwise distinct path keys, the forest the
\* path-based scrapeCPVTree returns holds every read node exactly once, as a
\* root or as a child of one node, and no other node: it has as many nodes as
\* were read, and every child was read after its parent, so there is no cycle.
C20_PathNodesConserved ==
  (ppc = "done" /\ DistinctPathKeys) =>
    /\ \A n \in 1..Len(nodes) :
         Cardinality({sl \in PathSlots : PathSlotNode(sl) = n}) = (IF Readable(n) THEN 1 ELSE 0)
    /\ Cardinality(PathSlots) = Cardinality({n \in 1..Len(nodes) : Readable(n)})
    /\ \A sl \in PathSlots : sl[1] < PathSlotNode(sl)

\* a stream with a skipped node, a root and a child of that root was rebuilt
C20_Witness ==
  /\ ppc = "done"
  /\ Len(nodes) = 3
  /\ \E n \in 1..3 : ~Readable(n)
  /\ Len(rootNodes) = 1
  /\ \E m \in 1..3 : Len(pChildren[m]) = 1

\* ---------------------------------------------------------------- properties: retryOperation without attempts

\* C22: when retryOperation is called with maxAttempts <= 0 the operation is
\* never invoked, no delay is performed, and the call fails, throwing the
\* undefined value.
C22_NoAttemptsThrowsUndefined ==
  (rpc # "idle" /\ maxAttempts <= 0) =>
    /\ calls = 0
    /\ opLog = <<>>
    /\ waits = <<>>
    /\ rpc \in {"loop", "throw", "failed"}
    /\ lastError = Undefined
    /\ retResult = Undefined
    /\ rpc = "failed" => retThrown = Undefined

\* a call with a negative maxAttempts has failed
C22_Witness ==
  /\ rpc = "failed"
  /\ maxAttempts < 0
  /\ calls = 0
  /\ waits = <<>>
  /\ retThrown = Undefined

\* ---------------------------------------------------------------- properties: visibility check

\* the widget renders expand controls and none of the rendered ones is
\* visible: the first query finds only invisible controls, and so does every
\* later one as long as nothing was activated
OnlyHiddenControls ==
  /\ \E c \in Controls : ctlParent[c] = 0
  /\ \A c \in Controls : ctlParent[c] = 0 => ctlKind[c] = "hidden"

\* C21: expandAllNodes activates a control only when the visibility check
\* made just before on that control returned true; so when every round finds
\* expand controls and none is visible, no control is ever activated, every
\* round counts, and the function returns only after 100 rounds.
C21_OnlyVisibleActivated ==
  /\ epc = "click" =>
       /\ isVisible
       /\ btnIdx \in 1..Len(expandButtons)
       /\ ctlKind[expandButtons[btnIdx]] # "hidden"
  /\ (epc # "idle" /\ OnlyHiddenControls) =>
       /\ clicks = 0
       /\ expanded = {}
       /\ epc # "click"
       /\ keepExpanding
       /\ epc = "for" => (expandButtons # <<>> /\ expandButtons = QueryExpandButtons)
       /\ epc = "done" => iterations = maxIterations

\* the function returned from a widget with nothing but invisible controls
C21_Witness ==
  /\ epc = "done"
  /\ OnlyHiddenControls
  /\ iterations = maxIterations
  /\ clicks = 0

====
